---- MODULE Spec2Model ----
(***************************************************************************)
(* PDFCraft: bookmark range derivation (BookmarkAnalyzer.get_split_points), *)
(* filename sanitization (PDFSplitter._generate_filename) and the split     *)
(* loop (PDFSplitter.split_pdf / _create_split_pdf).                        *)
(*                                                                         *)
(* Strings are sequences of one-character strings, so that the regular      *)
(* expressions, strip, slicing and formatting of the code are computed      *)
(* character by character.  Python's None is the empty sequence and an      *)
(* integer n that may be None is <<n>>.                                     *)
(***************************************************************************)
EXTENDS Integers, Sequences, FiniteSets, TLC

VARIABLES
    pc,            \* position of the running operation
    bookmarks,     \* get_split_points: the argument list
    split_points,  \* get_split_points: the returned list; split_pdf: its argument
    title,         \* _generate_filename: argument title
    index,         \* _generate_filename: argument index
    filename,      \* _generate_filename: returned filename
    refilename,    \* _generate_filename applied to the stem of filename
    total_pages,   \* split_pdf: len(source_pdf.pages)
    pdf_exists,    \* split_pdf: pdf_path.exists()
    bad_pages,     \* split_pdf: the source pages whose read or copy raises
    i,             \* split_pdf: loop index (0-based) of the next split point
    split_files,   \* split_pdf: the list of created paths
    files,         \* the output directory: filename -> pages of the file
    outcome,       \* split_pdf: per processed split point, the message logged for it
    max_level,     \* filter_by_level: argument max_level
    keywords,      \* filter_by_keywords: argument keywords
    case_sensitive, \* filter_by_keywords: argument case_sensitive
    filtered,      \* filter_by_level / filter_by_keywords: the returned list
    refiltered,    \* filter_by_level applied to its own result
    outline,       \* extract_bookmarks: pdf_reader.outline
    entry,         \* the entry point run: CLIHandler or PDFCraftCLI
    args,          \* run: the command line, as the parser's namespace
    env,           \* run: the source, the document and the output directory it meets
    pdf_path,      \* run: the path load_pdf returned
    exit_code,     \* run: the value returned, or the status of SystemExit
    temp_files,    \* PDFLoader.temp_dir: the *.pdf files in it
    calls,         \* run: the stages called so far, in order
    pdf_status,    \* convert_multiple_pdfs: per input path, what its conversion meets
    converted_files, \* convert_multiple_pdfs: the list of markdown paths
    md_files,      \* the markdown directory: the *.md files in it
    page_num,      \* _create_split_pdf: the next page (0-indexed) of the range
    output_pdf,    \* _create_split_pdf: the pages (1-indexed) added to the writer
    reordered,     \* get_split_points: the argument list in another order
    split_points_again, \* get_split_points: the result of a second call
    validated      \* validate_split_points: the returned list

vars == <<pc, bookmarks, split_points, title, index, filename, refilename,
          total_pages, pdf_exists, bad_pages, i, split_files, files, outcome,
          max_level, keywords, case_sensitive, filtered, refiltered, outline,
          entry, args, env, pdf_path, exit_code, temp_files, calls,
          pdf_status, converted_files, md_files,
          page_num, output_pdf, reordered, split_points_again, validated>>

filterVars == <<max_level, keywords, case_sensitive, filtered, refiltered>>
cliVars == <<entry, args, env, pdf_path, exit_code, temp_files, calls>>
convertVars == <<pdf_status, converted_files, md_files>>
rangeVars == <<page_num, output_pdf, reordered, split_points_again, validated>>
pipelineVars == <<filterVars, outline, cliVars, convertVars, rangeVars>>

nameVars == <<title, index, filename, refilename>>
deriveVars == <<bookmarks>>
splitVars == <<total_pages, pdf_exists, bad_pages, i, split_files, files, outcome>>

----------------------------------------------------------------------------
(* Bounds of the model *)

MaxBookmarks == 3
MaxPage == 3
MaxFiltered == 3
MaxKeywords == 2
MaxItems == 2
MaxDepth == 12
MaxPdfs == 3

----------------------------------------------------------------------------
(* Python values *)

None == <<>>
Some(n) == <<n>>

Max(a, b) == IF a >= b THEN a ELSE b
Min(a, b) == IF a <= b THEN a ELSE b

Last(s) == s[Len(s)]
Front(s) == SubSeq(s, 1, Len(s) - 1)

RECURSIVE SeqsUpTo(_, _)
SeqsUpTo(S, n) ==
    IF n = 0 THEN {<<>>}
    ELSE LET shorter == SeqsUpTo(S, n - 1)
         IN  shorter \cup {Append(s, x) : s \in {t \in shorter : Len(t) = n - 1}, x \in S}

----------------------------------------------------------------------------
(* Bookmarks: {title, page, level} *)

\* Two titles that differ only in the separator, and so clean to the same stem.
TitleSpace == <<"a", " ", "b">>
TitleHyphen == <<"a", "-", "b">>

TitleIntro == <<"I", "n", "t", "r", "o">>
TitleCh1 == <<"C", "h", "1">>
TitleCh11 == <<"C", "h", "1", ".", "1">>
TitleCh2 == <<"C", "h", "2">>

BookmarkTitles == {TitleSpace, TitleHyphen}
\* The level is only copied by the range derivation.
Levels == {0, 1}

Bookmark(t, p, l) == [title |-> t, page |-> p, level |-> l]

Bookmarks == {Bookmark(t, p, l) : t \in BookmarkTitles, p \in 1..MaxPage, l \in Levels}

\* The scenario of the specification: Intro p1, Ch1 p3, Ch1.1 p3 (level 1), Ch2 p7.
ExampleBookmarks ==
    << Bookmark(TitleIntro, 1, 0), Bookmark(TitleCh1, 3, 0),
       Bookmark(TitleCh11, 3, 1), Bookmark(TitleCh2, 7, 0) >>

BookmarkLists == SeqsUpTo(Bookmarks, MaxBookmarks) \cup {ExampleBookmarks}

----------------------------------------------------------------------------
(* BookmarkAnalyzer.get_split_points *)

\* Variant: an unstable sort, a bookmark going before those of its own page.
RECURSIVE InsertUnstable(_, _)
InsertUnstable(b, s) ==
    IF s = <<>> THEN <<b>>
    ELSE IF b.page <= Head(s).page THEN <<b>> \o s
    ELSE <<Head(s)>> \o InsertUnstable(b, Tail(s))

\* sorted(..., key=page) is stable: a bookmark goes after every bookmark whose
\* page is less than or equal to its own.
RECURSIVE InsertByPage(_, _)
InsertByPage(b, s) ==
    IF s = <<>> THEN <<b>>
    ELSE IF b.page < Head(s).page THEN <<b>> \o s
    ELSE <<Head(s)>> \o InsertByPage(b, Tail(s))

\* Variant: the bookmarks left in the order given.
Unsorted(bs) == bs

RECURSIVE sorted_bookmarks(_)
sorted_bookmarks(bs) ==
    IF bs = <<>> THEN <<>>
    ELSE InsertByPage(Last(bs), sorted_bookmarks(Front(bs)))

\* The loop over sorted_bookmarks with seen_pages.
RECURSIVE UniqueFrom(_, _)
UniqueFrom(s, seen_pages) ==
    IF s = <<>> THEN <<>>
    ELSE IF Head(s).page \notin seen_pages
         THEN <<Head(s)>> \o UniqueFrom(Tail(s), seen_pages \cup {Head(s).page})
         ELSE UniqueFrom(Tail(s), seen_pages)

unique_bookmarks(bs) == UniqueFrom(bs, {})

SplitPoint(t, s, e, l) == [title |-> t, start_page |-> s, end_page |-> e, level |-> l]

\* Variant: the range ends on the next bookmark's page.
RangeEndNextPage(next_page) == Some(next_page)

\* end_page = next_page - 1
range_end(next_page) == Some(next_page - 1)

\* Variant: the loop stops before the last bookmark.
RECURSIVE SplitPointsNoLast(_, _)
SplitPointsNoLast(u, k) ==
    IF k + 1 > Len(u) THEN <<>>
    ELSE LET next_page == u[k + 1].page
         IN  IF next_page > u[k].page
             THEN <<SplitPoint(u[k].title, u[k].page, range_end(next_page), u[k].level)>>
                  \o SplitPointsNoLast(u, k + 1)
             ELSE SplitPointsNoLast(u, k + 1)

\* The loop for i, bookmark in enumerate(unique_bookmarks), from position k (1-based).
RECURSIVE SplitPointsFrom(_, _)
SplitPointsFrom(u, k) ==
    IF k > Len(u) THEN <<>>
    ELSE LET bookmark == u[k]
             start_page == bookmark.page
         IN  IF k + 1 <= Len(u)
             THEN LET next_page == u[k + 1].page
                  IN  IF next_page > start_page
                      THEN <<SplitPoint(bookmark.title, start_page,
                                        range_end(next_page), bookmark.level)>>
                           \o SplitPointsFrom(u, k + 1)
                      ELSE SplitPointsFrom(u, k + 1)
             ELSE <<SplitPoint(bookmark.title, start_page, None, bookmark.level)>>
                  \o SplitPointsFrom(u, k + 1)

get_split_points(bs) ==
    IF bs = <<>> THEN <<>>
    ELSE SplitPointsFrom(unique_bookmarks(sorted_bookmarks(bs)), 1)

----------------------------------------------------------------------------
(* Range derivation as an operation *)

NoFiles == [f \in {} |-> <<>>]

IdleFilter ==
    /\ max_level = 0
    /\ keywords = <<>>
    /\ case_sensitive = FALSE
    /\ filtered = <<>>
    /\ refiltered = <<>>

IdleCli ==
    /\ entry = "none"
    /\ args = <<>>
    /\ env = <<>>
    /\ pdf_path = <<>>
    /\ exit_code = <<>>
    /\ temp_files = {}
    /\ calls = <<>>

IdleConvert ==
    /\ pdf_status = <<>>
    /\ converted_files = <<>>
    /\ md_files = {}

IdleRange ==
    /\ page_num = 0
    /\ output_pdf = <<>>
    /\ reordered = <<>>
    /\ split_points_again = <<>>
    /\ validated = <<>>

IdlePipeline ==
    /\ IdleFilter
    /\ outline = <<>>
    /\ IdleCli
    /\ IdleConvert
    /\ IdleRange

IdleName ==
    /\ title = <<>>
    /\ index = 0
    /\ filename = <<>>
    /\ refilename = <<>>

IdleSplit ==
    /\ total_pages = 0
    /\ pdf_exists = TRUE
    /\ bad_pages = {}
    /\ i = 0
    /\ split_files = <<>>
    /\ files = NoFiles
    /\ outcome = <<>>

InitDerive ==
    /\ pc = "derive"
    /\ bookmarks \in BookmarkLists
    /\ split_points = <<>>
    /\ IdleName
    /\ IdleSplit
    /\ IdlePipeline

GetSplitPoints ==
    /\ pc = "derive"
    /\ split_points' = get_split_points(bookmarks)
    /\ pc' = "derived"
    /\ UNCHANGED <<pipelineVars, bookmarks, nameVars, splitVars>>

NextDerive == GetSplitPoints

SpecDerive == InitDerive /\ [][NextDerive]_vars

----------------------------------------------------------------------------
(* Claims about the range derivation *)

Derived == pc = "derived"

InputPages == {bookmarks[k].page : k \in DOMAIN bookmarks}
StartPages == {split_points[k].start_page : k \in DOMAIN split_points}
HasRepeatedPage == \E j, k \in DOMAIN bookmarks : j # k /\ bookmarks[j].page = bookmarks[k].page

\* C1: the split points returned by get_split_points are in strictly ascending
\* start_page order, are no more than the bookmarks given, and the empty list
\* gives the empty list.
C1_AscendingBoundedEmpty ==
    Derived =>
        /\ \A k \in 1..(Len(split_points) - 1) :
               split_points[k].start_page < split_points[k + 1].start_page
        /\ Len(split_points) <= Len(bookmarks)
        /\ (bookmarks = <<>> => split_points = <<>>)

C1_Witness ==
    /\ Derived
    /\ HasRepeatedPage
    /\ Len(split_points) >= 2
    /\ \E k \in 1..(Len(bookmarks) - 1) : bookmarks[k].page > bookmarks[k + 1].page

\* C2: every two consecutive split points A, B have A.end_page = B.start_page - 1.
C2_Contiguous ==
    Derived =>
        \A k \in 1..(Len(split_points) - 1) :
            split_points[k].end_page = Some(split_points[k + 1].start_page - 1)

C2_Witness ==
    /\ Derived
    /\ Len(split_points) = 3
    /\ bookmarks[1].page > bookmarks[2].page

\* C3: for a non-empty list exactly one split point has an open end_page, and it
\* is the last one, which has the greatest start_page; one bookmark gives one
\* open split point starting at its page.
C3_OneOpenLast ==
    (Derived /\ bookmarks # <<>>) =>
        /\ split_points # <<>>
        /\ \A k \in DOMAIN split_points :
               (split_points[k].end_page = None) <=> (k = Len(split_points))
        /\ \A k \in DOMAIN split_points :
               split_points[k].start_page <= Last(split_points).start_page
        /\ Len(bookmarks) = 1 =>
               /\ Len(split_points) = 1
               /\ split_points[1].start_page = bookmarks[1].page

C3_Witness ==
    /\ Derived
    /\ Len(bookmarks) = 3
    /\ Len(split_points) = 2
    /\ Last(split_points).end_page = None

\* The first bookmark, in the order given, that is on page p.
FirstOnPage(p) ==
    bookmarks[CHOOSE j \in DOMAIN bookmarks :
                  /\ bookmarks[j].page = p
                  /\ \A k \in 1..(j - 1) : bookmarks[k].page # p]

ExampleSplitPoints ==
    << SplitPoint(TitleIntro, 1, Some(2), 0), SplitPoint(TitleCh1, 3, Some(6), 0),
       SplitPoint(TitleCh2, 7, None, 0) >>

\* C4: the start pages returned are exactly the distinct pages given, each split
\* point carries the title and level of the first bookmark given on its page, and
\* the scenario Intro 1, Ch1 3, Ch1.1 3, Ch2 7 gives Intro 1-2, Ch1 3-6, Ch2 7-open.
C4_PagesAndFirstTitle ==
    Derived =>
        /\ StartPages = InputPages
        /\ \A k \in DOMAIN split_points :
               /\ split_points[k].title = FirstOnPage(split_points[k].start_page).title
               /\ split_points[k].level = FirstOnPage(split_points[k].start_page).level
        /\ bookmarks = ExampleBookmarks => split_points = ExampleSplitPoints

C4_Witness ==
    /\ Derived
    /\ \E j, k \in DOMAIN bookmarks :
           /\ j < k
           /\ bookmarks[j].page = bookmarks[k].page
           /\ bookmarks[j].title # bookmarks[k].title
           /\ bookmarks[j].level # bookmarks[k].level
    /\ Len(split_points) >= 2

\* A split point's range holds page p; an open range is [start_page, infinity).
Covers(sp, p) ==
    /\ p >= sp.start_page
    /\ sp.end_page # None => p <= sp.end_page[1]

\* Two ranges that share a page share the greater of their start pages.
\* C5: no split point returned is zero-length or inverted, and no page belongs to
\* the ranges of two split points.
C5_NoEmptyNoOverlap ==
    Derived =>
        /\ \A k \in DOMAIN split_points :
               split_points[k].end_page # None =>
                   split_points[k].end_page[1] >= split_points[k].start_page
        /\ \A j, k \in DOMAIN split_points :
               j # k => \A p \in StartPages :
                            ~(Covers(split_points[j], p) /\ Covers(split_points[k], p))

C5_Witness ==
    /\ Derived
    /\ Len(split_points) >= 2
    /\ \E k \in DOMAIN split_points :
           /\ split_points[k].end_page # None
           /\ split_points[k].end_page[1] = split_points[k].start_page

----------------------------------------------------------------------------
(* PDFSplitter._generate_filename *)

max_filename_len == 50
MaxRuns == 3
MaxIndex == 1

Letters == {"a", "b", "A", "B", "C", "h", "I", "n", "t", "r", "o", "O", "v", "e",
            "i", "w", "s", "c"}
Digits == <<"0", "1", "2", "3", "4", "5", "6", "7", "8", "9">>
DigitChars == {Digits[k] : k \in DOMAIN Digits}

\* \w, \s and the hyphen of the two regular expressions.
IsWord(c) == c \in Letters \cup DigitChars \cup {"_"}
IsSpace(c) == c \in {" ", "\t"}
IsSeparator(c) == c = "-" \/ IsSpace(c)

\* re.sub(r'[^\w\s-]', '', title)
KeptChar(c) == IsWord(c) \/ IsSpace(c) \/ c = "-"

RemoveUnsafe(s) == SelectSeq(s, KeptChar)

\* re.sub(r'[-\s]+', '_', clean_title): every maximal run of separators becomes
\* one underscore, put where the run starts.
StartsRun(s, k) == IsSeparator(s[k]) /\ (k = 1 \/ ~IsSeparator(s[k - 1]))

KeptInCollapse(m) == m[2] # "in_run"

CollapseSeparators(s) ==
    LET marked == [k \in 1..Len(s) |->
                       IF StartsRun(s, k) THEN <<"_", "run">>
                       ELSE IF IsSeparator(s[k]) THEN <<s[k], "in_run">>
                       ELSE <<s[k], "char">>]
        kept == SelectSeq(marked, KeptInCollapse)
    IN  [k \in 1..Len(kept) |-> kept[k][1]]

\* clean_title.strip('_')
LStrip(s) ==
    LET others == {k \in 1..Len(s) : s[k] # "_"}
    IN  IF others = {} THEN <<>>
        ELSE SubSeq(s, CHOOSE k \in others : \A m \in others : k <= m, Len(s))

RStrip(s) ==
    LET others == {k \in 1..Len(s) : s[k] # "_"}
    IN  IF others = {} THEN <<>>
        ELSE SubSeq(s, 1, CHOOSE k \in others : \A m \in others : k >= m)

Strip(s) == LStrip(RStrip(s))

\* Variant: no truncation.
NoTruncate(s) == s

\* if len(clean_title) > 50: clean_title = clean_title[:50]
Truncate(s) ==
    IF Len(s) > max_filename_len THEN SubSeq(s, 1, max_filename_len) ELSE s

\* The decimal digits of n >= 0, at least width of them: format(n, "0{width}d").
RECURSIVE ZeroPadded(_, _)
ZeroPadded(n, width) ==
    IF n < 10 /\ width <= 1 THEN <<Digits[n + 1]>>
    ELSE ZeroPadded(n \div 10, width - 1) \o <<Digits[(n % 10) + 1]>>

\* f"section_{index + 1:03d}"
SectionName(idx) == <<"s", "e", "c", "t", "i", "o", "n", "_">> \o ZeroPadded(idx + 1, 3)

PdfSuffix == <<".", "p", "d", "f">>

_generate_filename(t, idx) ==
    LET clean_title == Truncate(Strip(CollapseSeparators(RemoveUnsafe(t))))
    IN  (IF clean_title = <<>> THEN SectionName(idx) ELSE clean_title) \o PdfSuffix

\* The filename without its .pdf suffix.
Stem(f) == SubSeq(f, 1, Len(f) - Len(PdfSuffix))

----------------------------------------------------------------------------
(* Titles given to _generate_filename *)

\* A title is a few runs of one character each, a run being one character long
\* or one short of the truncation length.
RunChars == {"a", "_", " ", "-", "!"}
RunLens == {1, max_filename_len - 1}
Runs == RunChars \X RunLens

Repeat(c, n) == [k \in 1..n |-> c]

RECURSIVE Expand(_)
Expand(runs) ==
    IF runs = <<>> THEN <<>> ELSE Repeat(Head(runs)[1], Head(runs)[2]) \o Expand(Tail(runs))

ExampleTitle == <<"A", "/", "B", ":", " ", "O", "v", "e", "r", "v", "i", "e", "w", "!", "!">>
SectionTitle == <<"s", "e", "c", "t", "i", "o", "n", " ", "0", "0", "1">>

Titles ==
    {Expand(runs) : runs \in SeqsUpTo(Runs, MaxRuns)}
        \cup {ExampleTitle, SectionTitle, TitleSpace, TitleHyphen}

Indices == 0..MaxIndex

IdleDerive ==
    /\ bookmarks = <<>>
    /\ split_points = <<>>

InitName ==
    /\ pc = "name"
    /\ title \in Titles
    /\ index \in Indices
    /\ filename = <<>>
    /\ refilename = <<>>
    /\ IdleDerive
    /\ IdleSplit
    /\ IdlePipeline

GenerateFilename ==
    /\ pc = "name"
    /\ filename' = _generate_filename(title, index)
    /\ pc' = "named"
    /\ UNCHANGED <<pipelineVars, bookmarks, split_points, title, index, refilename, splitVars>>

\* The sanitization applied to a stem it has produced.
Resanitize ==
    /\ pc = "named"
    /\ refilename' = _generate_filename(Stem(filename), index)
    /\ pc' = "renamed"
    /\ UNCHANGED <<pipelineVars, bookmarks, split_points, title, index, filename, splitVars>>

NextName == GenerateFilename \/ Resanitize

SpecName == InitName /\ [][NextName]_vars

----------------------------------------------------------------------------
(* Claims about the filename sanitization *)

Named == pc \in {"named", "renamed"}

\* C6: sanitizing a stem that the sanitization produced returns that stem
\* unchanged, also when the cleaned title was truncated.
C6_Idempotent == pc = "renamed" => Stem(refilename) = Stem(filename)

\* The cleaned title is empty: the title has no letter and no digit.
CleansToEmpty(t) == \A k \in DOMAIN t : t[k] \notin Letters \cup DigitChars

\* section_NNN for index + 1 below 1000.
ExpectedSection(idx) ==
    <<"s", "e", "c", "t", "i", "o", "n", "_",
      Digits[(((idx + 1) \div 100) % 10) + 1],
      Digits[(((idx + 1) \div 10) % 10) + 1],
      Digits[((idx + 1) % 10) + 1]>>

ExampleStem == <<"A", "B", "_", "O", "v", "e", "r", "v", "i", "e", "w">>

\* C7 as stated: the stem is never empty, never longer than 50 characters, is
\* section_NNN exactly when the cleaned title is empty, and A/B: Overview!! gives
\* AB_Overview.
C7_SectionExactlyWhenEmpty ==
    Named =>
        /\ Stem(filename) # <<>>
        /\ Len(Stem(filename)) <= 50
        /\ (Stem(filename) = ExpectedSection(index)) <=> CleansToEmpty(title)
        /\ title = ExampleTitle => Stem(filename) = ExampleStem

\* C7 as amended: the stem is never empty and never longer than 50 characters;
\* it is section_NNN whenever the cleaned title is empty, and otherwise it is the
\* cleaned title cut to 50 characters, which holds a letter or a digit;
\* A/B: Overview!! gives AB_Overview.
C7_SectionWhenEmpty ==
    Named =>
        /\ Stem(filename) # <<>>
        /\ Len(Stem(filename)) <= 50
        /\ filename = Stem(filename) \o PdfSuffix
        /\ CleansToEmpty(title) => Stem(filename) = ExpectedSection(index)
        /\ ~CleansToEmpty(title) =>
               /\ ~CleansToEmpty(Stem(filename))
               /\ \A k \in DOMAIN Stem(filename) : IsWord(Stem(filename)[k])
               /\ Head(Stem(filename)) # "_"
        /\ title = ExampleTitle => Stem(filename) = ExampleStem

C7_Witness ==
    /\ pc = "named"
    /\ Len(title) > 50
    /\ Len(Stem(filename)) = 50
    /\ ~CleansToEmpty(title)

----------------------------------------------------------------------------
(* PDFSplitter.split_pdf and PDFSplitter._create_split_pdf *)

MaxSplits == 2
MaxSplitPage == 2

\* split_pdf reads title, start_page and end_page of a split point.
SplitPointInputs ==
    {SplitPoint(t, s, e, 0) : t \in BookmarkTitles, s \in 0..MaxSplitPage,
                              e \in {None} \cup {Some(n) : n \in 1..MaxSplitPage}}

\* The scenario of the specification: a 10-page document split at (1,5), (6,open).
ScenarioSplitPoints ==
    << SplitPoint(TitleCh1, 1, Some(5), 0), SplitPoint(TitleCh2, 6, None, 0) >>

SplitPointLists == SeqsUpTo(SplitPointInputs, MaxSplits) \cup {ScenarioSplitPoints}

\* The pages of a document that raise when read or added: none, or the first.
BadPageSets == {{}, {1}}

\* The documents a list is split from: len(source_pdf.pages) and the bad pages.
Documents(sps) ==
    IF sps = ScenarioSplitPoints
    THEN {<<10, {}>>}
    ELSE UNION {{<<n, bad>> : bad \in BadPageSets} : n \in 1..MaxSplitPage}

InitSplit ==
    /\ pc = "split"
    /\ split_points \in SplitPointLists
    /\ bookmarks = <<>>
    /\ IdleName
    /\ IdleSplit
    /\ IdlePipeline

\* if not pdf_path.exists(): raise FileNotFoundError
SplitPdfMissing ==
    /\ pc = "split"
    /\ pdf_exists' = FALSE
    /\ pc' = "raised"
    /\ UNCHANGED <<pipelineVars, bookmarks, split_points, nameVars, total_pages, bad_pages, i,
                   split_files, files, outcome>>

\* open(pdf_path), PdfReader, total_pages = len(source_pdf.pages), split_files = []
SplitPdfOpen ==
    /\ pc = "split"
    /\ \E doc \in Documents(split_points) :
           /\ total_pages' = doc[1]
           /\ bad_pages' = doc[2]
    /\ pdf_exists' = TRUE
    /\ i' = 0
    /\ split_files' = <<>>
    /\ pc' = "loop"
    /\ UNCHANGED <<pipelineVars, bookmarks, split_points, nameVars, files, outcome>>

\* Variant: the start page not converted to 0-indexed.
ClampStartOneBased(sp) == Max(0, sp.start_page)

\* start_page = max(0, split_point['start_page'] - 1), 0-indexed
ClampStart(sp) == Max(0, sp.start_page - 1)

\* end_page = min(total_pages, end_page), None read as total_pages
ClampEnd(sp, total) ==
    Min(total, IF sp.end_page = None THEN total ELSE sp.end_page[1])

\* for page_num in range(start_page, end_page): the pages (1-indexed) added to
\* output_pdf, a page that raises being skipped.
PagesAdded(sp, total, bad) ==
    SelectSeq([k \in 1..(ClampEnd(sp, total) - ClampStart(sp)) |-> ClampStart(sp) + k],
              LAMBDA page : page \notin bad)

InvalidRange(sp, total) == ClampStart(sp) >= ClampEnd(sp, total)

\* with open(output_path, 'wb') as output_file: output_pdf.write(output_file)
WriteFile(fs, name, pages) ==
    [f \in DOMAIN fs \cup {name} |-> IF f = name THEN pages ELSE fs[f]]

\* Variant: an error raised for one split point ends split_pdf.
AbortOnError(msg) ==
    /\ outcome' = Append(outcome, msg)
    /\ i' = i + 1
    /\ pc' = IF msg = "error" THEN "raised" ELSE pc
    /\ UNCHANGED <<pipelineVars, bookmarks, split_points, nameVars, total_pages, pdf_exists,
                   bad_pages>>

\* One iteration of the loop ends with its message logged; the except clause of
\* split_pdf logs the error and continues.
Logged(msg) ==
    /\ outcome' = Append(outcome, msg)
    /\ i' = i + 1
    /\ UNCHANGED <<pipelineVars, pc, bookmarks, split_points, nameVars, total_pages, pdf_exists,
                   bad_pages>>

InLoop == pc = "loop" /\ i < Len(split_points)

\* if start_page >= end_page: warning, return None
SkipInvalidRange ==
    /\ InLoop
    /\ InvalidRange(split_points[i + 1], total_pages)
    /\ Logged("invalid_range")
    /\ UNCHANGED <<split_files, files>>

\* if pages_added == 0: warning, return None
SkipNoPages ==
    /\ InLoop
    /\ ~InvalidRange(split_points[i + 1], total_pages)
    /\ PagesAdded(split_points[i + 1], total_pages, bad_pages) = <<>>
    /\ Logged("no_pages")
    /\ UNCHANGED <<split_files, files>>

\* The file is written and its path appended to split_files.
CreateSplitPdf ==
    /\ InLoop
    /\ ~InvalidRange(split_points[i + 1], total_pages)
    /\ PagesAdded(split_points[i + 1], total_pages, bad_pages) # <<>>
    /\ LET name == _generate_filename(split_points[i + 1].title, i)
       IN  /\ files' = WriteFile(files, name,
                                 PagesAdded(split_points[i + 1], total_pages, bad_pages))
           /\ split_files' = Append(split_files, name)
    /\ Logged("created")

\* open(output_path, 'wb') raises: nothing is written.
CreateRaises ==
    /\ InLoop
    /\ ~InvalidRange(split_points[i + 1], total_pages)
    /\ PagesAdded(split_points[i + 1], total_pages, bad_pages) # <<>>
    /\ UNCHANGED <<split_files, files>>
    /\ Logged("error")

\* return split_files
SplitPdfReturn ==
    /\ pc = "loop"
    /\ i = Len(split_points)
    /\ pc' = "done"
    /\ UNCHANGED <<pipelineVars, bookmarks, split_points, nameVars, splitVars>>

NextSplit ==
    \/ SplitPdfMissing
    \/ SplitPdfOpen
    \/ SkipInvalidRange
    \/ SkipNoPages
    \/ CreateSplitPdf
    \/ CreateRaises
    \/ SplitPdfReturn

SpecSplit == InitSplit /\ [][NextSplit]_vars

----------------------------------------------------------------------------
(* Claims about the splitter *)

\* The 1-indexed inclusive range of a split point on a document of total pages.
FirstPage(sp) == IF sp.start_page < 1 THEN 1 ELSE sp.start_page
LastPage(sp, total) ==
    IF sp.end_page = None \/ sp.end_page[1] > total THEN total ELSE sp.end_page[1]
ExpectedPages(sp, total) ==
    [k \in 1..(LastPage(sp, total) - FirstPage(sp) + 1) |-> FirstPage(sp) + k - 1]

NoCopyFailure(sp) == \A p \in bad_pages : p < FirstPage(sp) \/ p > LastPage(sp, total_pages)

\* A list as the range derivation returns it: ascending, contiguous, open-ended.
AsDerived(sps) ==
    /\ sps # <<>>
    /\ sps[1].start_page >= 1
    /\ \A k \in 1..(Len(sps) - 1) :
           /\ sps[k].end_page = Some(sps[k + 1].start_page - 1)
           /\ sps[k].start_page < sps[k + 1].start_page
    /\ Last(sps).end_page = None

AllValidAndCopied ==
    /\ \A k \in DOMAIN split_points :
           /\ FirstPage(split_points[k]) <= LastPage(split_points[k], total_pages)
           /\ NoCopyFailure(split_points[k])
    /\ \A k \in DOMAIN outcome : outcome[k] # "error"

\* C8: when every split point has a valid page range and every page copies,
\* split_pdf returns one path per split point, the paths are pairwise distinct
\* files, and no split point's file is overwritten by another's, also when two
\* titles sanitize to the same stem.
C8_DistinctOutputs ==
    (pc = "done" /\ AsDerived(split_points) /\ AllValidAndCopied) =>
        /\ Len(split_files) = Len(split_points)
        /\ \A j, k \in DOMAIN split_files : j # k => split_files[j] # split_files[k]
        /\ \A k \in DOMAIN split_files :
               files[split_files[k]] = ExpectedPages(split_points[k], total_pages)

\* The split point at position i (1-based) has just been processed.
JustProcessed == pc \in {"loop", "done"} /\ i >= 1

\* C9: with no page-copy failure, the file _create_split_pdf writes for a split
\* point holds exactly the source pages start_page..end_page, clamped to
\* 1..total, an open end_page read as total; the 10-page document split at
\* (1,5), (6,open) gives two files, the second holding pages 6 to 10.
C9_ExactPages ==
    /\ (JustProcessed /\ NoCopyFailure(split_points[i]) /\ outcome[i] = "created") =>
           /\ split_files # <<>>
           /\ Last(split_files) \in DOMAIN files
           /\ files[Last(split_files)] = ExpectedPages(split_points[i], total_pages)
           /\ ExpectedPages(split_points[i], total_pages) # <<>>
    /\ (JustProcessed /\ NoCopyFailure(split_points[i])
            /\ ExpectedPages(split_points[i], total_pages) # <<>>) =>
           outcome[i] \in {"created", "error"}
    /\ (pc = "done" /\ split_points = ScenarioSplitPoints /\ AllValidAndCopied) =>
           /\ total_pages = 10
           /\ Len(split_files) = 2
           /\ files[split_files[1]] = <<1, 2, 3, 4, 5>>
           /\ files[split_files[2]] = <<6, 7, 8, 9, 10>>

C9_Witness ==
    /\ JustProcessed
    /\ outcome[i] = "created"
    /\ split_points[i].start_page = 0
    /\ split_points[i].end_page = Some(2)
    /\ total_pages = 1
    /\ bad_pages = {}

\* The paths of the split points among the first k that were written, in order.
RECURSIVE WrittenPaths(_)
WrittenPaths(k) ==
    IF k = 0 THEN <<>>
    ELSE WrittenPaths(k - 1)
             \o (IF outcome[k] = "created"
                 THEN <<_generate_filename(split_points[k].title, k - 1)>>
                 ELSE <<>>)

\* C10: a split point whose clamped range is empty, or whose creation raises, is
\* skipped and does not abort the batch: split_pdf raises only before the loop,
\* every split point is processed, and the returned list holds, in split-point
\* order, exactly the paths of the split points that were written.
C10_SkipNeverAborts ==
    /\ pc = "raised" => (~pdf_exists /\ outcome = <<>>)
    /\ pc \in {"loop", "done"} =>
           /\ Len(outcome) = i
           /\ \A k \in 1..i :
                  /\ FirstPage(split_points[k]) > LastPage(split_points[k], total_pages)
                         <=> outcome[k] = "invalid_range"
                  /\ outcome[k] \in {"invalid_range", "no_pages", "error", "created"}
           /\ split_files = WrittenPaths(i)
    /\ pc = "done" => i = Len(split_points)

C10_Witness ==
    /\ pc = "done"
    /\ Len(split_points) = 2
    /\ outcome \in {<<"invalid_range", "created">>, <<"error", "created">>}
    /\ Len(split_files) = 1

----------------------------------------------------------------------------
(* BookmarkAnalyzer.filter_by_level, BookmarkAnalyzer.filter_by_keywords *)

\* Variant: a strict comparison, dropping the bookmarks of level max_level.
FilterBelowLevel(bs, L) == SelectSeq(bs, LAMBDA b : b.level < L)

filter_by_level(bs, L) == SelectSeq(bs, LAMBDA b : b.level <= L)

\* str.lower(), on the letters of the titles and keywords of the model.
UpperCase == <<"A", "B", "C", "D", "F", "H", "I", "N", "P", "T">>
LowerCase == <<"a", "b", "c", "d", "f", "h", "i", "n", "p", "t">>

LowerChar(c) ==
    IF \E k \in DOMAIN UpperCase : UpperCase[k] = c
    THEN LowerCase[CHOOSE k \in DOMAIN UpperCase : UpperCase[k] = c]
    ELSE c

lower(s) == [k \in 1..Len(s) |-> LowerChar(s[k])]

\* keyword in title
Contains(keyword, t) ==
    \E p \in 0..(Len(t) - Len(keyword)) : SubSeq(t, p + 1, p + Len(keyword)) = keyword

\* Variant: only the title is lowered, the keywords are compared as given.
FilterLoweringTitleOnly(bs, kws, cs) ==
    IF kws = <<>> THEN bs
    ELSE SelectSeq(bs, LAMBDA b :
            LET t == IF ~cs THEN lower(b.title) ELSE b.title
            IN  \E j \in DOMAIN kws : Contains(kws[j], t))

filter_by_keywords(bs, kws, cs) ==
    IF kws = <<>> THEN bs
    ELSE SelectSeq(bs, LAMBDA b :
            LET t == IF ~cs THEN lower(b.title) ELSE b.title
                ks == IF ~cs THEN [j \in DOMAIN kws |-> lower(kws[j])] ELSE kws
            IN  \E j \in DOMAIN ks : Contains(ks[j], t))

\* Inputs: titles and keywords that match exactly, match only when the case is
\* ignored, or do not match; max_level below, at and above the levels present.
FilterTitles == {TitleCh1, TitleIntro, TitleHyphen}
FilterBookmarks == {Bookmark(t, 1, l) : t \in FilterTitles, l \in Levels}
FilterLists == SeqsUpTo(FilterBookmarks, MaxFiltered)
LevelArgs == {-1, 0, 1, 2}
Keywords == {<<"C", "h">>, <<"c", "h">>, <<"N", "T">>}
KeywordLists == SeqsUpTo(Keywords, MaxKeywords)

IdleExceptFilter ==
    /\ split_points = <<>>
    /\ IdleName
    /\ IdleSplit
    /\ outline = <<>>
    /\ IdleCli
    /\ IdleConvert
    /\ IdleRange

InitFilter ==
    /\ bookmarks \in FilterLists
    /\ \/ /\ pc = "by_level"
          /\ max_level \in LevelArgs
          /\ keywords = <<>>
          /\ case_sensitive = FALSE
       \/ /\ pc = "by_keywords"
          /\ max_level = 0
          /\ keywords \in KeywordLists
          /\ case_sensitive \in BOOLEAN
    /\ filtered = <<>>
    /\ refiltered = <<>>
    /\ IdleExceptFilter

filterArgs == <<bookmarks, max_level, keywords, case_sensitive>>
filterRest == <<split_points, nameVars, splitVars, outline, cliVars, convertVars, rangeVars>>

FilterByLevel ==
    /\ pc = "by_level"
    /\ filtered' = filter_by_level(bookmarks, max_level)
    /\ pc' = "levelled"
    /\ UNCHANGED <<filterArgs, refiltered, filterRest>>

\* The result filtered by the same level once more.
FilterByLevelAgain ==
    /\ pc = "levelled"
    /\ refiltered' = filter_by_level(filtered, max_level)
    /\ pc' = "relevelled"
    /\ UNCHANGED <<filterArgs, filtered, filterRest>>

FilterByKeywords ==
    /\ pc = "by_keywords"
    /\ filtered' = filter_by_keywords(bookmarks, keywords, case_sensitive)
    /\ pc' = "keyworded"
    /\ UNCHANGED <<filterArgs, refiltered, filterRest>>

NextFilter ==
    \/ FilterByLevel
    \/ FilterByLevelAgain
    \/ FilterByKeywords

SpecFilter == InitFilter /\ [][NextFilter]_vars

\* The n-th of a set of positions, in ascending order.
NthOf(kept, n) == CHOOSE k \in kept : Cardinality({m \in kept : m < k}) = n - 1

\* out is bs restricted to the positions kept, in the order of bs.
KeptInOrder(bs, kept, out) ==
    /\ Len(out) = Cardinality(kept)
    /\ \A n \in DOMAIN out : out[n] = bs[NthOf(kept, n)]

LevelKept == {k \in DOMAIN bookmarks : bookmarks[k].level <= max_level}

\* C15: filter_by_level returns exactly the bookmarks of level <= max_level, in
\* their original order, and filtering its result by the same level again
\* returns the same list, for every max_level, negative ones included.
C15_LevelFilterIdempotent ==
    /\ pc \in {"levelled", "relevelled"} => KeptInOrder(bookmarks, LevelKept, filtered)
    /\ pc = "relevelled" => refiltered = filtered

\* A list filtered twice that lost a bookmark between two it kept.
C15_Witness ==
    /\ pc = "relevelled"
    /\ Len(bookmarks) = 3
    /\ LevelKept = {1, 3}
    /\ refiltered = <<bookmarks[1], bookmarks[3]>>

\* Two characters are the same, or the same letter in the two cases.
SameChar(a, b, cs) ==
    \/ a = b
    \/ ~cs /\ \E k \in DOMAIN UpperCase : {a, b} = {UpperCase[k], LowerCase[k]}

\* The keyword occurs in the title at some position, character by character.
Occurs(keyword, t, cs) ==
    \E p \in 0..(Len(t) - Len(keyword)) :
        \A k \in 1..Len(keyword) : SameChar(keyword[k], t[p + k], cs)

KeywordKept ==
    {k \in DOMAIN bookmarks :
        \E j \in DOMAIN keywords : Occurs(keywords[j], bookmarks[k].title, case_sensitive)}

\* C16: filter_by_keywords returns, in their original order, exactly the
\* bookmarks whose title contains one of the keywords, ignoring the case unless
\* case_sensitive; with no keyword it returns its input unchanged.
C16_KeywordFilter ==
    pc = "keyworded" =>
        IF keywords = <<>> THEN filtered = bookmarks
        ELSE KeptInOrder(bookmarks, KeywordKept, filtered)

\* A keyword in capitals that matches a title only when the case is ignored,
\* with a bookmark dropped between two that are kept.
C16_Witness ==
    /\ pc = "keyworded"
    /\ ~case_sensitive
    /\ keywords = << <<"N", "T">> >>
    /\ Len(bookmarks) = 3
    /\ filtered = <<bookmarks[1], bookmarks[3]>>
    /\ bookmarks[2].title = TitleCh1

----------------------------------------------------------------------------
(* BookmarkAnalyzer.extract_bookmarks, _parse_outline, _get_page_number *)

\* if level > 10
max_depth == 10

\* A page reference: an IndirectObject ("indirect"; "broken" when get_object
\* raises), a page object ("object"), an integer ("int"), or one whose access
\* raises ("raises"). at is the index of the page in pdf_reader.pages, or the
\* integer; an index outside pdf_reader.pages is a page that is not in the document.
Ref(type, at) == [type |-> type, at |-> at]

\* An item of an outline: a destination (a bookmark), or a nested list, held
\* by reference so that an outline can contain itself.
Dest(t, page, dest, ok) ==
    [kind |-> "dest", title |-> t, title_ok |-> ok, page |-> page, dest |-> dest, ref |-> 0]
Nested(id) ==
    [kind |-> "list", title |-> <<>>, title_ok |-> TRUE, page |-> None, dest |-> None, ref |-> id]

\* enumerate(pdf_reader.pages): the index at which the referenced page is found.
PageIndex(r, n_pages) ==
    IF r.type \in {"indirect", "object"} /\ r.at \in 0..(n_pages - 1) THEN Some(r.at) ELSE None

_get_page_number_from_ref(r, n_pages) ==
    IF r.type \in {"broken", "raises"} THEN 1
    ELSE IF PageIndex(r, n_pages) # None THEN PageIndex(r, n_pages)[1] + 1
    ELSE 1

\* Variant: an unresolved destination is given page 0.
PageZeroWhenUnresolved(b, n_pages) ==
    IF b.page # None /\ b.page[1].type = "raises" THEN 0
    ELSE IF b.page # None /\ PageIndex(b.page[1], n_pages) # None
         THEN PageIndex(b.page[1], n_pages)[1] + 1
    ELSE IF b.page # None /\ b.page[1].type = "int" THEN Max(1, b.page[1].at + 1)
    ELSE IF b.dest # None /\ PageIndex(b.dest[1], n_pages) # None
         THEN PageIndex(b.dest[1], n_pages)[1] + 1
    ELSE 0

_get_page_number(b, n_pages) ==
    IF b.page # None /\ b.page[1].type = "raises" THEN 1
    ELSE IF b.page # None /\ PageIndex(b.page[1], n_pages) # None
         THEN PageIndex(b.page[1], n_pages)[1] + 1
    ELSE IF b.page # None /\ b.page[1].type = "int" THEN Max(1, b.page[1].at + 1)
    ELSE IF b.dest # None THEN _get_page_number_from_ref(b.dest[1], n_pages)
    ELSE 1

\* Variant: a list at the limit itself is refused.
RECURSIVE ParseRefusingAtLimit(_, _, _, _)
ParseRefusingAtLimit(lists, items, n_pages, level) ==
    IF level >= max_depth \/ items = <<>> THEN <<>>
    ELSE LET item == Head(items)
             parsed ==
                 IF item.kind = "list"
                 THEN ParseRefusingAtLimit(lists, lists[item.ref], n_pages, level + 1)
                 ELSE IF ~item.title_ok THEN <<>>
                 ELSE <<Bookmark(item.title, _get_page_number(item, n_pages), level)>>
         IN  parsed \o ParseRefusingAtLimit(lists, Tail(items), n_pages, level)

\* lists[id] is the nested list an item refers to; items is the part of the
\* list at this level still to be read.
RECURSIVE _parse_outline(_, _, _, _)
_parse_outline(lists, items, n_pages, level) ==
    IF level > max_depth \/ items = <<>> THEN <<>>
    ELSE LET item == Head(items)
             parsed ==
                 IF item.kind = "list"
                 THEN _parse_outline(lists, lists[item.ref], n_pages, level + 1)
                 ELSE IF ~item.title_ok THEN <<>>
                 ELSE <<Bookmark(item.title, _get_page_number(item, n_pages), level)>>
         IN  parsed \o _parse_outline(lists, Tail(items), n_pages, level)

\* pdf_reader.outline is lists[1].
extract_bookmarks(lists, n_pages) ==
    IF lists[1] # <<>> THEN _parse_outline(lists, lists[1], n_pages, 0) ELSE <<>>

\* Destinations: resolved through each path, and unresolved through each.
LeafIndirect == Dest(TitleIntro, Some(Ref("indirect", 0)), None, TRUE)
LeafObject == Dest(TitleCh1, Some(Ref("object", 1)), None, TRUE)
LeafInt == Dest(TitleCh2, Some(Ref("int", 2)), None, TRUE)
LeafNegativeInt == Dest(TitleCh2, Some(Ref("int", -2)), None, TRUE)
LeafViaDest == Dest(TitleCh11, None, Some(Ref("indirect", 1)), TRUE)
LeafBrokenThenDest == Dest(TitleCh11, Some(Ref("broken", 0)), Some(Ref("object", 2)), TRUE)
LeafNotInDocument == Dest(TitleHyphen, Some(Ref("indirect", -1)), None, TRUE)
LeafRaises == Dest(TitleSpace, Some(Ref("raises", 0)), None, TRUE)
LeafNoDestination == Dest(TitleSpace, None, None, TRUE)
LeafNoTitle == Dest(<<>>, Some(Ref("object", 0)), None, FALSE)

Leaves ==
    {LeafIndirect, LeafObject, LeafInt, LeafNegativeInt, LeafViaDest, LeafBrokenThenDest,
     LeafNotInDocument, LeafRaises, LeafNoDestination, LeafNoTitle}

\* Outlines of two lists: the top level, and one nested list that may
\* contain the top level again.
SmallOutlines ==
    {<<top, nested>> : top \in SeqsUpTo(Leaves \cup {Nested(2)}, MaxItems),
                       nested \in SeqsUpTo(Leaves \cup {Nested(1)}, 1)}

\* Outlines of depth lists, each but the last holding a destination and the
\* next list, in either order.
Chain(depth, leaf, leaf_first) ==
    [id \in 1..depth |->
        IF id = depth THEN <<leaf>>
        ELSE IF leaf_first THEN <<leaf, Nested(id + 1)>>
        ELSE <<Nested(id + 1), leaf>>]

ChainOutlines ==
    {Chain(depth, leaf, leaf_first) :
        depth \in 1..MaxDepth, leaf \in {LeafObject, LeafRaises}, leaf_first \in BOOLEAN}

Outlines == SmallOutlines \cup ChainOutlines

extractRest ==
    <<split_points, nameVars, bad_pages, i, split_files, files, outcome,
      filterVars, cliVars, convertVars, rangeVars>>

InitExtract ==
    /\ pc = "extract"
    /\ outline \in Outlines
    /\ total_pages = MaxPage
    /\ pdf_exists \in BOOLEAN
    /\ bookmarks = <<>>
    /\ split_points = <<>>
    /\ IdleName
    /\ bad_pages = {}
    /\ i = 0
    /\ split_files = <<>>
    /\ files = NoFiles
    /\ outcome = <<>>
    /\ IdleFilter
    /\ IdleCli
    /\ IdleConvert
    /\ IdleRange

\* if not pdf_path.exists(): raise FileNotFoundError
ExtractMissing ==
    /\ pc = "extract"
    /\ ~pdf_exists
    /\ pc' = "raised"
    /\ UNCHANGED <<bookmarks, outline, total_pages, pdf_exists, extractRest>>

ExtractBookmarks ==
    /\ pc = "extract"
    /\ pdf_exists
    /\ bookmarks' = extract_bookmarks(outline, total_pages)
    /\ pc' = "extracted"
    /\ UNCHANGED <<outline, total_pages, pdf_exists, extractRest>>

NextExtract ==
    \/ ExtractMissing
    \/ ExtractBookmarks

\* The call runs to its return or to its exception.
SpecExtract == InitExtract /\ [][NextExtract]_vars /\ WF_vars(NextExtract)

\* The item a path of positions leads to, from the top-level list.
RECURSIVE ItemAt(_, _, _)
ItemAt(lists, items, path) ==
    IF Len(path) = 1 THEN items[path[1]]
    ELSE ItemAt(lists, lists[items[path[1]].ref], Tail(path))

\* The paths of k positions that lead to an item.
RECURSIVE PathsOfLength(_, _)
PathsOfLength(lists, k) ==
    IF k = 1 THEN {<<n>> : n \in DOMAIN lists[1]}
    ELSE UNION {{Append(path, n) : n \in DOMAIN lists[ItemAt(lists, lists[1], path).ref]} :
                    path \in {q \in PathsOfLength(lists, k - 1) :
                                ItemAt(lists, lists[1], q).kind = "list"}}

\* The destinations nested in at most ten lists, each as the path to it.
DestPaths(lists) ==
    {path \in UNION {PathsOfLength(lists, k) : k \in 1..11} :
        ItemAt(lists, lists[1], path).kind = "dest"}

\* The order in which a pre-order walk meets two items.
Before(p, q) ==
    \E k \in 1..Min(Len(p), Len(q)) :
        /\ p[k] < q[k]
        /\ \A j \in 1..(k - 1) : p[j] = q[j]

\* The n-th of a set of paths in pre-order.
NthPath(paths, n) == CHOOSE p \in paths : Cardinality({q \in paths : Before(q, p)}) = n - 1

Emitted(lists) == {path \in DestPaths(lists) : ItemAt(lists, lists[1], path).title_ok}

\* C17: the extracted bookmarks are the destinations of the outline in tree
\* pre-order, each at the level of its nesting depth; a list nested deeper
\* than 10 gives none, so every level is within 0..10, and extraction of an
\* outline of any depth, one that contains itself included, comes to its end.
C17_PreOrderDepthBounded ==
    /\ [](pc = "extracted" =>
            /\ Len(bookmarks) = Cardinality(Emitted(outline))
            /\ \A n \in DOMAIN bookmarks :
                LET path == NthPath(Emitted(outline), n)
                IN  /\ bookmarks[n].title = ItemAt(outline, outline[1], path).title
                    /\ bookmarks[n].level = Len(path) - 1
                    /\ bookmarks[n].level \in 0..10)
    /\ (pc = "extract" ~> pc \in {"extracted", "raised"})

\* An outline nested twelve deep: the destinations of levels 0 to 10 are
\* extracted in order and the one of level 11 is not.
C17_Witness ==
    /\ pc = "extracted"
    /\ Len(outline) = 12
    /\ outline[1][1].kind = "list"
    /\ Len(bookmarks) = 11
    /\ \A n \in DOMAIN bookmarks : bookmarks[n].level = 11 - n

\* The places of an outline that hold a destination.
Slots(lists) ==
    {s \in (DOMAIN lists) \X (1..MaxItems) :
        s[2] \in DOMAIN lists[s[1]] /\ lists[s[1]][s[2]].kind = "dest"}

\* The outline with the destination of one place made unresolvable.
Unresolvable(lists, s) ==
    [lists EXCEPT ![s[1]][s[2]].page = Some(Ref("broken", 0)), ![s[1]][s[2]].dest = None]

\* C18: every extracted bookmark has a page >= 1, and making one destination
\* unresolvable changes nothing of the extraction but the page of that
\* bookmark, which becomes 1.
C18_UnresolvedIsPageOne ==
    pc = "extracted" =>
        /\ \A n \in DOMAIN bookmarks : bookmarks[n].page >= 1
        /\ \A s \in Slots(outline) :
            LET other == extract_bookmarks(Unresolvable(outline, s), total_pages)
                its_title == outline[s[1]][s[2]].title
            IN  /\ Len(other) = Len(bookmarks)
                /\ \A n \in DOMAIN bookmarks :
                    \/ other[n] = bookmarks[n]
                    \/ /\ bookmarks[n].title = its_title
                       /\ other[n] = [bookmarks[n] EXCEPT !.page = 1]

\* A resolved destination, then a nested one whose page reference raises:
\* the first on its page, the second extracted all the same, on page 1.
C18_Witness ==
    /\ pc = "extracted"
    /\ outline[1] = <<LeafObject, Nested(2)>>
    /\ outline[2] = <<LeafRaises>>
    /\ bookmarks = <<Bookmark(TitleCh1, 2, 0), Bookmark(TitleSpace, 1, 1)>>

----------------------------------------------------------------------------
(* MarkdownConverter.convert_multiple_pdfs, convert_pdf_to_markdown *)

MdSuffix == <<".", "m", "d">>

\* pdf_path.stem + '.md'
md_filename(pdf) == Stem(pdf) \o MdSuffix

\* What the conversion of one PDF meets: text ("ok"), a file that is not
\* there ("missing"), an exception of markitdown or of the write ("raises"),
\* no text ("empty").
Statuses == {"ok", "missing", "raises", "empty"}

PdfPaths == {<<"a">> \o PdfSuffix, <<"b">> \o PdfSuffix, TitleSpace \o PdfSuffix}

PdfInputs == SeqsUpTo({[path |-> f, status |-> st] : f \in PdfPaths, st \in Statuses}, MaxPdfs)

convertRest == <<bookmarks, split_points, nameVars, total_pages, pdf_exists, bad_pages,
                 split_files, files, outcome, filterVars, outline, cliVars, rangeVars>>

InitConvert ==
    /\ pc = "convert"
    /\ pdf_status \in PdfInputs
    /\ i = 0
    /\ converted_files = <<>>
    /\ md_files = {}
    /\ bookmarks = <<>>
    /\ split_points = <<>>
    /\ IdleName
    /\ total_pages = 0
    /\ pdf_exists = TRUE
    /\ bad_pages = {}
    /\ split_files = <<>>
    /\ files = NoFiles
    /\ outcome = <<>>
    /\ IdleFilter
    /\ outline = <<>>
    /\ IdleCli
    /\ IdleRange

\* Variant: a failure for one PDF is raised out of convert_multiple_pdfs.
AbortBatch ==
    /\ i' = i + 1
    /\ pc' = "raised"
    /\ UNCHANGED <<pdf_status, converted_files, md_files, convertRest>>

\* The PDF gives no markdown file and the loop goes on to the next.
Skipped ==
    /\ i' = i + 1
    /\ UNCHANGED <<pc, pdf_status, converted_files, md_files, convertRest>>

InBatch == pc = "convert" /\ i < Len(pdf_status)

\* convert_pdf_to_markdown raises FileNotFoundError; except Exception: continue
ConvertMissing ==
    /\ InBatch
    /\ pdf_status[i + 1].status = "missing"
    /\ Skipped

\* convert_pdf_to_markdown catches the exception and returns None
ConvertRaises ==
    /\ InBatch
    /\ pdf_status[i + 1].status = "raises"
    /\ Skipped

\* No content extracted: convert_pdf_to_markdown returns None
ConvertEmpty ==
    /\ InBatch
    /\ pdf_status[i + 1].status = "empty"
    /\ Skipped

\* The markdown file is written and its path appended to converted_files.
ConvertWritten ==
    /\ InBatch
    /\ pdf_status[i + 1].status = "ok"
    /\ md_files' = md_files \cup {md_filename(pdf_status[i + 1].path)}
    /\ converted_files' = Append(converted_files, md_filename(pdf_status[i + 1].path))
    /\ i' = i + 1
    /\ UNCHANGED <<pc, pdf_status, convertRest>>

ConvertReturn ==
    /\ pc = "convert"
    /\ i = Len(pdf_status)
    /\ pc' = "converted"
    /\ UNCHANGED <<i, pdf_status, converted_files, md_files, convertRest>>

NextConvert ==
    \/ ConvertMissing
    \/ ConvertRaises
    \/ ConvertEmpty
    \/ ConvertWritten
    \/ ConvertReturn

\* The loop runs to the return of convert_multiple_pdfs.
SpecConvert == InitConvert /\ [][NextConvert]_vars /\ WF_vars(NextConvert)

\* The inputs that give text, as their positions.
Convertible == {k \in DOMAIN pdf_status : pdf_status[k].status = "ok"}

\* The name of the markdown file of a PDF: its name with .md for .pdf.
SameStemMd(pdf, md) ==
    /\ Len(md) = Len(pdf) - 1
    /\ SubSeq(md, 1, Len(md) - 3) = SubSeq(pdf, 1, Len(pdf) - 4)
    /\ SubSeq(md, Len(md) - 2, Len(md)) = <<".", "m", "d">>

\* C20: convert_multiple_pdfs never ends by an exception and reaches its
\* return whatever the PDFs meet; it returns, in input order, one markdown
\* path (same stem, .md) for each PDF that gave text, each of them written
\* and no other file written, so at most as many as the PDFs given.
C20_BatchNeverAborts ==
    /\ [](pc # "raised")
    /\ [](pc = "converted" =>
            /\ Len(converted_files) = Cardinality(Convertible)
            /\ \A n \in DOMAIN converted_files :
                SameStemMd(pdf_status[NthOf(Convertible, n)].path, converted_files[n])
            /\ md_files = {converted_files[n] : n \in DOMAIN converted_files}
            /\ Len(converted_files) <= Len(pdf_status))
    /\ (pc = "convert" ~> pc = "converted")

\* A missing PDF, then one that gives text, then one whose conversion raises:
\* only the second is converted, after the failure of the first.
C20_Witness ==
    /\ pc = "converted"
    /\ Len(pdf_status) = 3
    /\ pdf_status[1].status = "missing"
    /\ pdf_status[2] = [path |-> <<"b">> \o PdfSuffix, status |-> "ok"]
    /\ pdf_status[3].status = "raises"
    /\ converted_files = << <<"b", ".", "m", "d">> >>

----------------------------------------------------------------------------
(* PDFLoader *)

\* A source as urlparse and Path read it: result.scheme, result.netloc and the
\* final component of the path.
Source(scheme, netloc, name) == [scheme |-> scheme, netloc |-> netloc, name |-> name]

\* if not source
IsEmptySource(src) == src.scheme = "" /\ src.netloc = "" /\ src.name = <<>>

\* all([result.scheme, result.netloc])
_is_url(src) == src.scheme # "" /\ src.netloc # ""

\* Path.suffix: the final component from its last dot, when that dot is
\* neither its first nor its last character.
suffix(name) ==
    LET dots == {k \in DOMAIN name : name[k] = "."}
        last == CHOOSE k \in dots : \A j \in dots : j <= k
    IN  IF dots # {} /\ last > 1 /\ last < Len(name)
        THEN SubSeq(name, last, Len(name))
        ELSE <<>>

\* Variant: any file that exists is accepted.
AcceptsAnySuffix(name) == TRUE

\* path.suffix.lower() == '.pdf'
HasPdfSuffix(name) == lower(suffix(name)) = PdfSuffix

DownloadedPdf == <<"d", "o", "w", "n", "l", "o", "a", "d", "e", "d">> \o PdfSuffix

\* _extract_filename_from_url: the basename, or a generated name.
EndsWithPdf(name) ==
    Len(name) >= Len(PdfSuffix) /\ SubSeq(name, Len(name) - 3, Len(name)) = PdfSuffix
_extract_filename_from_url(src) == IF EndsWithPdf(src.name) THEN src.name ELSE DownloadedPdf

\* load_pdf: whether it raises (ValueError, FileNotFoundError, RequestException)
\* for a source that, as a file or as a URL, is there or not.
LoadRaises(src, there) ==
    IF IsEmptySource(src) THEN TRUE
    ELSE IF _is_url(src) THEN ~there
    ELSE ~there \/ ~HasPdfSuffix(src.name)

\* load_pdf: the path returned, in the temporary directory for a download.
load_pdf(src) ==
    IF _is_url(src)
    THEN [temp |-> TRUE, name |-> _extract_filename_from_url(src)]
    ELSE [temp |-> FALSE, name |-> src.name]

----------------------------------------------------------------------------
(* PDFSplitter.split_pdf as the entry points call it *)

\* The loop of split_pdf over split_points from position k on: the names
\* appended to split_files, a write that raises being logged and skipped.
RECURSIVE SplitFilesFrom(_, _, _, _, _)
SplitFilesFrom(sps, k, total, bad, writable) ==
    IF k > Len(sps) THEN <<>>
    ELSE LET created ==
                 IF InvalidRange(sps[k], total) THEN <<>>
                 ELSE IF PagesAdded(sps[k], total, bad) = <<>> THEN <<>>
                 ELSE IF ~writable THEN <<>>
                 ELSE <<_generate_filename(sps[k].title, k - 1)>>
         IN  created \o SplitFilesFrom(sps, k + 1, total, bad, writable)

\* The files of the output directory afterwards, a later file of the same
\* name replacing an earlier one.
RECURSIVE FilesWrittenFrom(_, _, _, _, _)
FilesWrittenFrom(fs, sps, k, total, bad) ==
    IF k > Len(sps) THEN fs
    ELSE IF InvalidRange(sps[k], total) \/ PagesAdded(sps[k], total, bad) = <<>>
         THEN FilesWrittenFrom(fs, sps, k + 1, total, bad)
    ELSE FilesWrittenFrom(WriteFile(fs, _generate_filename(sps[k].title, k - 1),
                                    PagesAdded(sps[k], total, bad)),
                          sps, k + 1, total, bad)

----------------------------------------------------------------------------
(* PDFCraftCLI.validate_arguments *)

OpsSplit == <<"s", "p", "l", "i", "t">>
PostTomd == <<"t", "o", "m", "d">>

validate_arguments(a) ==
    IF lower(a.ops[1]) # OpsSplit THEN FALSE
    ELSE IF a.post # None /\ a.post[1] # <<>> /\ lower(a.post[1]) # PostTomd THEN FALSE
    ELSE IF a.source = None \/ IsEmptySource(a.source[1]) THEN FALSE
    ELSE IF a.level = None /\ (a.keywords = None \/ a.keywords[1] = <<>>) THEN FALSE
    ELSE TRUE

----------------------------------------------------------------------------
(* CLIHandler.run (src/main.py) and PDFCraftCLI.run (pdfcraft.py) *)

NamePdf == <<"a">> \o PdfSuffix
NameUpperPdf == <<"a", ".", "P", "D", "F">>
NameTxt == <<"a", ".", "t", "x", "t">>
NameNoSuffix == <<"a", "p", "d", "f">>

\* Sources: empty, local with and without a .pdf suffix, a file named ".pdf"
\* (no suffix), a drive letter (a scheme without a network location), a
\* network location without a scheme, and URLs.
Sources ==
    {Source("", "", <<>>), Source("", "", NamePdf), Source("", "", NameUpperPdf),
     Source("", "", NameTxt), Source("", "", NameNoSuffix), Source("", "", PdfSuffix),
     Source("c", "", NamePdf), Source("", "host", NamePdf),
     Source("http", "host", NamePdf), Source("http", "host", NameTxt)}

\* The outline of the document: none; a top-level bookmark and a nested one;
\* a nested one only; one that points beyond the last page.
NoOutline == << <<>>, <<>> >>
TwoLevelOutline == << <<LeafIndirect, Nested(2)>>, <<LeafObject>> >>
NestedOnlyOutline == << <<Nested(2)>>, <<LeafObject>> >>
BeyondOutline == << <<Dest(TitleCh2, Some(Ref("int", 9)), None, TRUE)>>, <<>> >>
DocumentOutlines == {NoOutline, TwoLevelOutline, NestedOnlyOutline, BeyondOutline}

\* The namespace of CLIHandler's parser: source, --level, --keywords,
\* --convert-markdown, --cleanup.
HandlerArgs ==
    {[ops |-> None, post |-> None, source |-> src, level |-> l, keywords |-> kws,
      case_sensitive |-> FALSE, convert_markdown |-> m, cleanup |-> c] :
        src \in {None} \cup {Some(x) : x \in Sources},
        l \in {None, Some(0), Some(1)},
        kws \in {None, Some(<< <<"N", "T">> >>)},
        m \in BOOLEAN, c \in BOOLEAN}

\* The namespace of PDFCraftCLI's parser: --ops, --post, source, --level,
\* --keywords, --cleanup. --post may be given an empty string.
CraftArgs ==
    {[ops |-> o, post |-> po, source |-> src, level |-> l, keywords |-> kws,
      case_sensitive |-> FALSE, convert_markdown |-> FALSE, cleanup |-> c] :
        o \in {None, Some(OpsSplit), Some(<<"s", "p", "l", "i", "T">>), Some(<<"c", "u", "t">>)},
        po \in {None, Some(PostTomd), Some(<<"t", "o", "p", "d", "f">>), Some(<<>>)},
        src \in {None} \cup {Some(x) : x \in Sources},
        l \in {None, Some(0), Some(1)},
        kws \in {None, Some(<< <<"N", "T">> >>)},
        c \in BOOLEAN}

\* What the run meets: the source is there (the file exists, the download
\* succeeds) or not; the output directory takes files ("ok"), refuses each
\* file ("unwritable"), or cannot be created ("no_dir").
Environments ==
    {[there |-> t, output |-> o] : t \in BOOLEAN, o \in {"ok", "unwritable", "no_dir"}}

\* A PDF left in the temporary directory by an earlier run.
EarlierDownload == <<"o", "l", "d">> \o PdfSuffix

cliFixed == <<entry, args, env, outline, total_pages, pdf_exists, bad_pages, i, outcome,
              nameVars, filterVars, pdf_status, rangeVars>>

InitCli ==
    /\ pc = "run_parse"
    /\ \/ entry = "CLIHandler" /\ args \in HandlerArgs
       \/ entry = "PDFCraftCLI" /\ args \in CraftArgs
    /\ env \in Environments
    /\ outline \in DocumentOutlines
    /\ total_pages = MaxPage
    /\ temp_files \in {{}, {EarlierDownload}}
    /\ pdf_path = None
    /\ exit_code = None
    /\ calls = <<>>
    /\ bookmarks = <<>>
    /\ split_points = <<>>
    /\ IdleName
    /\ pdf_exists = TRUE
    /\ bad_pages = {}
    /\ i = 0
    /\ split_files = <<>>
    /\ files = NoFiles
    /\ outcome = <<>>
    /\ IdleFilter
    /\ IdleConvert
    /\ IdleRange

\* return <code>, from the body of run or from one of its except clauses
Returns(code) ==
    /\ exit_code' = Some(code)
    /\ pc' = "returned"

\* parser.error: SystemExit(status), which no except clause of run catches
Exits(status) ==
    /\ exit_code' = Some(status)
    /\ pc' = "exited"

Called(stage) == calls' = Append(calls, stage)

\* parse_args: both of a mutually exclusive group, or a required argument missing
ParserError ==
    \/ args.level # None /\ args.keywords # None
    \/ entry = "CLIHandler" /\ args.source = None
    \/ entry = "PDFCraftCLI" /\ args.ops = None

ParseArgsError ==
    /\ pc = "run_parse"
    /\ ParserError
    /\ Exits(2)
    /\ UNCHANGED <<cliFixed, pdf_path, temp_files, calls, bookmarks, split_points,
                   split_files, files, converted_files, md_files>>

ParseArgs ==
    /\ pc = "run_parse"
    /\ ~ParserError
    /\ pc' = IF entry = "PDFCraftCLI" THEN "run_validate" ELSE "run_load"
    /\ UNCHANGED <<cliFixed, pdf_path, exit_code, temp_files, calls, bookmarks, split_points,
                   split_files, files, converted_files, md_files>>

\* if not self.validate_arguments(parsed_args): return 1
ValidateArguments ==
    /\ pc = "run_validate"
    /\ IF validate_arguments(args)
       THEN pc' = "run_load" /\ UNCHANGED exit_code
       ELSE Returns(1)
    /\ UNCHANGED <<cliFixed, pdf_path, temp_files, calls, bookmarks, split_points,
                   split_files, files, converted_files, md_files>>

\* load_pdf raises; except Exception: return 1
LoadPdfRaises ==
    /\ pc = "run_load"
    /\ LoadRaises(args.source[1], env.there)
    /\ Called("load_pdf")
    /\ Returns(1)
    /\ UNCHANGED <<cliFixed, pdf_path, temp_files, bookmarks, split_points,
                   split_files, files, converted_files, md_files>>

\* load_pdf returns the local path, or the path of the download
LoadPdf ==
    /\ pc = "run_load"
    /\ ~LoadRaises(args.source[1], env.there)
    /\ Called("load_pdf")
    /\ pdf_path' = Some(load_pdf(args.source[1]))
    /\ temp_files' = IF _is_url(args.source[1])
                     THEN temp_files \cup {_extract_filename_from_url(args.source[1])}
                     ELSE temp_files
    /\ pc' = "run_extract"
    /\ UNCHANGED <<cliFixed, exit_code, bookmarks, split_points,
                   split_files, files, converted_files, md_files>>

\* The filter the flags select, and the bookmarks it returns.
FilterCalled ==
    IF args.level # None THEN <<"filter_by_level">>
    ELSE IF args.keywords # None THEN <<"filter_by_keywords">>
    ELSE <<>>
Filtered ==
    IF args.level # None THEN filter_by_level(bookmarks, args.level[1])
    ELSE IF args.keywords # None
         THEN filter_by_keywords(bookmarks, args.keywords[1], args.case_sensitive)
    ELSE bookmarks

\* convert_multiple_pdfs on the split files, each giving text or none of them.
Converts ==
    \E text \in BOOLEAN :
        /\ converted_files' =
               IF text THEN [k \in DOMAIN split_files |-> md_filename(split_files[k])] ELSE <<>>
        /\ md_files' = IF text THEN {md_filename(split_files[k]) : k \in DOMAIN split_files}
                       ELSE md_files

\* cleanup_temp_files: every *.pdf of the temporary directory is removed.
CleansUp == temp_files' = {}

\* Step 2 of CLIHandler.run: extract; if not bookmarks: return 1
HandlerExtract ==
    /\ pc = "run_extract"
    /\ entry = "CLIHandler"
    /\ Called("extract_bookmarks")
    /\ bookmarks' = extract_bookmarks(outline, total_pages)
    /\ IF bookmarks' = <<>> THEN Returns(1) ELSE pc' = "run_filter" /\ UNCHANGED exit_code
    /\ UNCHANGED <<cliFixed, pdf_path, temp_files, split_points,
                   split_files, files, converted_files, md_files>>

\* Apply filters; if not bookmarks: return 1
HandlerFilter ==
    /\ pc = "run_filter"
    /\ entry = "CLIHandler"
    /\ calls' = calls \o FilterCalled
    /\ bookmarks' = Filtered
    /\ IF bookmarks' = <<>> THEN Returns(1) ELSE pc' = "run_split" /\ UNCHANGED exit_code
    /\ UNCHANGED <<cliFixed, pdf_path, temp_files, split_points,
                   split_files, files, converted_files, md_files>>

\* Step 3: get_split_points, split_pdf; if not split_files: return 1.
\* split_pdf raises when the output directory cannot be created.
HandlerSplit ==
    /\ pc = "run_split"
    /\ entry = "CLIHandler"
    /\ calls' = calls \o <<"get_split_points", "split_pdf">>
    /\ split_points' = get_split_points(bookmarks)
    /\ IF env.output = "no_dir"
       THEN /\ Returns(1)
            /\ UNCHANGED <<split_files, files>>
       ELSE /\ split_files' = SplitFilesFrom(split_points', 1, total_pages, bad_pages,
                                             env.output = "ok")
            /\ files' = IF env.output = "ok"
                        THEN FilesWrittenFrom(files, split_points', 1, total_pages, bad_pages)
                        ELSE files
            /\ IF split_files' = <<>>
               THEN Returns(1)
               ELSE pc' = "run_convert" /\ UNCHANGED exit_code
    /\ UNCHANGED <<cliFixed, pdf_path, temp_files, bookmarks, converted_files, md_files>>

\* Step 4: if parsed_args.convert_markdown: convert_multiple_pdfs
HandlerConvert ==
    /\ pc = "run_convert"
    /\ entry = "CLIHandler"
    /\ IF args.convert_markdown
       THEN Called("convert_multiple_pdfs") /\ Converts
       ELSE UNCHANGED <<calls, converted_files, md_files>>
    /\ pc' = "run_cleanup"
    /\ UNCHANGED <<cliFixed, pdf_path, exit_code, temp_files, bookmarks, split_points,
                   split_files, files>>

\* Step 5: if parsed_args.cleanup: cleanup_temp_files; return 0
HandlerCleanup ==
    /\ pc = "run_cleanup"
    /\ entry = "CLIHandler"
    /\ IF args.cleanup
       THEN Called("cleanup_temp_files") /\ CleansUp
       ELSE UNCHANGED <<calls, temp_files>>
    /\ Returns(0)
    /\ UNCHANGED <<cliFixed, pdf_path, bookmarks, split_points,
                   split_files, files, converted_files, md_files>>

\* execute_split_operation: extract_bookmarks
CraftExtract ==
    /\ pc = "run_extract"
    /\ entry = "PDFCraftCLI"
    /\ Called("extract_bookmarks")
    /\ bookmarks' = extract_bookmarks(outline, total_pages)
    /\ pc' = "run_filter"
    /\ UNCHANGED <<cliFixed, pdf_path, exit_code, temp_files, split_points,
                   split_files, files, converted_files, md_files>>

\* execute_split_operation: the filter, its result passed on whatever it is
CraftFilter ==
    /\ pc = "run_filter"
    /\ entry = "PDFCraftCLI"
    /\ calls' = calls \o FilterCalled
    /\ bookmarks' = Filtered
    /\ pc' = "run_split"
    /\ UNCHANGED <<cliFixed, pdf_path, exit_code, temp_files, split_points,
                   split_files, files, converted_files, md_files>>

\* execute_split_operation: get_split_points, split_pdf. An exception of
\* split_pdf reaches the except clause of run: return 1.
CraftSplit ==
    /\ pc = "run_split"
    /\ entry = "PDFCraftCLI"
    /\ calls' = calls \o <<"get_split_points", "split_pdf">>
    /\ split_points' = get_split_points(bookmarks)
    /\ IF env.output = "no_dir"
       THEN /\ Returns(1)
            /\ UNCHANGED <<split_files, files>>
       ELSE /\ split_files' = SplitFilesFrom(split_points', 1, total_pages, bad_pages,
                                             env.output = "ok")
            /\ files' = IF env.output = "ok"
                        THEN FilesWrittenFrom(files, split_points', 1, total_pages, bad_pages)
                        ELSE files
            /\ pc' = "run_cleanup"
            /\ UNCHANGED exit_code
    /\ UNCHANGED <<cliFixed, pdf_path, temp_files, bookmarks, converted_files, md_files>>

\* execute_split_operation: if args.cleanup: cleanup_temp_files; return split_files
CraftCleanup ==
    /\ pc = "run_cleanup"
    /\ entry = "PDFCraftCLI"
    /\ IF args.cleanup
       THEN Called("cleanup_temp_files") /\ CleansUp
       ELSE UNCHANGED <<calls, temp_files>>
    /\ pc' = "run_convert"
    /\ UNCHANGED <<cliFixed, pdf_path, exit_code, bookmarks, split_points,
                   split_files, files, converted_files, md_files>>

\* run: if post is tomd: execute_markdown_conversion; return 0
CraftConvert ==
    /\ pc = "run_convert"
    /\ entry = "PDFCraftCLI"
    /\ IF args.post # None /\ lower(args.post[1]) = PostTomd
       THEN Called("convert_multiple_pdfs") /\ Converts
       ELSE UNCHANGED <<calls, converted_files, md_files>>
    /\ Returns(0)
    /\ UNCHANGED <<cliFixed, pdf_path, temp_files, bookmarks, split_points,
                   split_files, files>>

Running ==
    pc \in {"run_parse", "run_validate", "run_load", "run_extract", "run_filter",
            "run_split", "run_convert", "run_cleanup"}

\* except KeyboardInterrupt: return 1
Interrupt ==
    /\ Running
    /\ Returns(1)
    /\ UNCHANGED <<cliFixed, pdf_path, temp_files, calls, bookmarks, split_points,
                   split_files, files, converted_files, md_files>>

NextCli ==
    \/ ParseArgsError
    \/ ParseArgs
    \/ ValidateArguments
    \/ LoadPdfRaises
    \/ LoadPdf
    \/ HandlerExtract
    \/ HandlerFilter
    \/ HandlerSplit
    \/ HandlerConvert
    \/ HandlerCleanup
    \/ CraftExtract
    \/ CraftFilter
    \/ CraftSplit
    \/ CraftCleanup
    \/ CraftConvert
    \/ Interrupt

SpecCli == InitCli /\ [][NextCli]_vars

----------------------------------------------------------------------------
(* Claims about the entry points *)

Ended == pc \in {"returned", "exited"}
Stages == {calls[k] : k \in DOMAIN calls}

\* The run found no bookmark, kept none, or created no split file.
EmptyResult ==
    \/ "extract_bookmarks" \in Stages /\ bookmarks = <<>>
    \/ "split_pdf" \in Stages /\ split_files = <<>>

\* C11: for both entry points, a run on a PDF without bookmarks, a run whose
\* filter leaves no bookmark and a run that creates no split file end with
\* exit code 1, never 0.
C11_EmptyResultExitsOne ==
    Ended /\ EmptyResult => exit_code = Some(1)

BothFlags == args # <<>> /\ args.level # None /\ args.keywords # None

\* C12: for both entry points, a run given both --level and --keywords ends
\* by returning 1: not by an exception, and with no other exit status.
C12_BothFlagsExitOne ==
    Ended /\ BothFlags => pc = "returned" /\ exit_code = Some(1)

NeitherFlag == args # <<>> /\ args.level = None /\ args.keywords = None
\* The command line parses, and its source can be loaded.
ValidSource ==
    /\ args # <<>>
    /\ ~ParserError
    /\ args.source # None
    /\ ~LoadRaises(args.source[1], env.there)

\* C13: for both entry points, a run with a valid source and neither --level
\* nor --keywords returns 1 and writes no split PDF.
C13_NeitherFlagExitsOne ==
    Ended /\ NeitherFlag /\ ValidSource => exit_code = Some(1) /\ files = NoFiles

\* C14: a run given --cleanup leaves no *.pdf in the temporary directory when
\* it ends, whatever its exit code.
C14_CleanupAlways ==
    pc = "returned" /\ args.cleanup => temp_files = {}

\* The name ends in .pdf, in either case, after at least one character.
IsPdfName(name) ==
    /\ Len(name) >= 5
    /\ name[Len(name) - 3] = "."
    /\ name[Len(name) - 2] \in {"p", "P"}
    /\ name[Len(name) - 1] \in {"d", "D"}
    /\ name[Len(name)] \in {"f", "F"}

\* The source is given and lacks a scheme or a network location.
NotUrl == args # <<>> /\ args.source # None /\
          (args.source[1].scheme = "" \/ args.source[1].netloc = "")

\* C19: for a source that is not a URL, load_pdf returns the path exactly when
\* the file exists and its suffix is .pdf in either case; otherwise, the empty
\* source included, the run ends with exit code 1, no bookmark extracted and
\* no file written.
C19_LocalLoad ==
    NotUrl =>
        /\ "load_pdf" \in Stages =>
               (pdf_path # None <=> env.there /\ IsPdfName(args.source[1].name))
        /\ pdf_path # None => pdf_path[1] = [temp |-> FALSE, name |-> args.source[1].name]
        /\ pdf_path = None =>
               /\ "extract_bookmarks" \notin Stages
               /\ files = NoFiles
               /\ md_files = {}
               /\ split_files = <<>>
        /\ pdf_path = None /\ pc = "returned" => exit_code = Some(1)
        /\ args.source[1].name = <<>> => pdf_path = None

\* A file that exists but is named a.txt: load_pdf was called and raised, and
\* the run returned 1 with nothing extracted.
C19_Witness ==
    /\ pc = "returned"
    /\ args.source = Some(Source("", "", NameTxt))
    /\ env.there
    /\ "load_pdf" \in Stages
    /\ pdf_path = None
    /\ exit_code = Some(1)

----------------------------------------------------------------------------
(* PDFSplitter._create_split_pdf, page by page *)

\* The split point is split_points[1] and its index is i.
CreateInputs ==
    {<<SplitPoint(TitleCh1, s, e, 0)>> :
        s \in 0..(MaxPage + 1), e \in {None} \cup {Some(n) : n \in 1..(MaxPage + 1)}}

createRest ==
    <<bookmarks, split_points, title, index, refilename, total_pages, pdf_exists, bad_pages,
      i, split_files, filterVars, outline, cliVars, convertVars, reordered,
      split_points_again, validated>>

InitCreate ==
    /\ pc = "create"
    /\ split_points \in CreateInputs
    /\ total_pages \in 0..MaxPage
    /\ bad_pages \in SUBSET (1..total_pages)
    /\ i = 0
    /\ page_num = 0
    /\ output_pdf = <<>>
    /\ reordered = <<>>
    /\ split_points_again = <<>>
    /\ validated = <<>>
    /\ bookmarks = <<>>
    /\ IdleName
    /\ pdf_exists = TRUE
    /\ split_files = <<>>
    /\ files = NoFiles
    /\ outcome = <<>>
    /\ IdleFilter
    /\ outline = <<>>
    /\ IdleCli
    /\ IdleConvert

\* if start_page >= end_page: warning, return None
CreateInvalidRange ==
    /\ pc = "create"
    /\ InvalidRange(split_points[1], total_pages)
    /\ outcome' = Append(outcome, "invalid_range")
    /\ pc' = "returned_none"
    /\ UNCHANGED <<createRest, filename, files, page_num, output_pdf>>

\* output_pdf = PdfWriter(); pages_added = 0; range(start_page, end_page)
CreateWriter ==
    /\ pc = "create"
    /\ ~InvalidRange(split_points[1], total_pages)
    /\ page_num' = ClampStart(split_points[1])
    /\ output_pdf' = <<>>
    /\ pc' = "pages"
    /\ UNCHANGED <<createRest, filename, files, outcome>>

InRange == pc = "pages" /\ page_num < ClampEnd(split_points[1], total_pages)

\* Variant: a page that raises ends the loop over the range.
StopAtBadPage ==
    /\ InRange
    /\ page_num + 1 \in bad_pages
    /\ page_num' = ClampEnd(split_points[1], total_pages)
    /\ UNCHANGED <<createRest, pc, filename, files, outcome, output_pdf>>

\* source_pdf.pages[page_num] or add_page raises: warning, continue
SkipPage ==
    /\ InRange
    /\ page_num + 1 \in bad_pages
    /\ page_num' = page_num + 1
    /\ UNCHANGED <<createRest, pc, filename, files, outcome, output_pdf>>

\* output_pdf.add_page(source_page); pages_added += 1
AddPage ==
    /\ InRange
    /\ page_num + 1 \notin bad_pages
    /\ output_pdf' = Append(output_pdf, page_num + 1)
    /\ page_num' = page_num + 1
    /\ UNCHANGED <<createRest, pc, filename, files, outcome>>

RangeDone == pc = "pages" /\ page_num = ClampEnd(split_points[1], total_pages)

\* if pages_added == 0: warning, return None
CreateNoPages ==
    /\ RangeDone
    /\ Len(output_pdf) = 0
    /\ outcome' = Append(outcome, "no_pages")
    /\ pc' = "returned_none"
    /\ UNCHANGED <<createRest, filename, files, page_num, output_pdf>>

\* The file is written under the generated name; return output_path
CreateWrite ==
    /\ RangeDone
    /\ Len(output_pdf) > 0
    /\ filename' = _generate_filename(split_points[1].title, i)
    /\ files' = WriteFile(files, filename', output_pdf)
    /\ outcome' = Append(outcome, "created")
    /\ pc' = "returned_path"
    /\ UNCHANGED <<createRest, page_num, output_pdf>>

\* open(output_path, 'wb') raises: the exception leaves _create_split_pdf
CreateWriteRaises ==
    /\ RangeDone
    /\ Len(output_pdf) > 0
    /\ filename' = _generate_filename(split_points[1].title, i)
    /\ outcome' = Append(outcome, "error")
    /\ pc' = "raised"
    /\ UNCHANGED <<createRest, files, page_num, output_pdf>>

NextCreate ==
    \/ CreateInvalidRange
    \/ CreateWriter
    \/ SkipPage
    \/ AddPage
    \/ CreateNoPages
    \/ CreateWrite
    \/ CreateWriteRaises

\* The call runs to its return or to the exception of the write.
SpecCreate == InitCreate /\ [][NextCreate]_vars /\ WF_vars(NextCreate)

\* The pages of the clamped range whose read and copy succeed.
Copyable ==
    {p \in 1..total_pages :
        /\ p >= split_points[1].start_page
        /\ split_points[1].end_page # None => p <= split_points[1].end_page[1]
        /\ p \notin bad_pages}

\* C21: within one split point a page that fails to be read or copied is
\* skipped and the other pages of the range are copied, in order; when
\* _create_split_pdf returns, it has written the file, holding these pages, if
\* and only if at least one page was copied, and with no page copied it
\* returns None and creates no file. The call always comes to its end.
C21_BadPageSkipped ==
    /\ [](pc \in {"returned_path", "returned_none"} =>
            /\ Len(output_pdf) = Cardinality(Copyable)
            /\ \A n \in DOMAIN output_pdf : output_pdf[n] = NthOf(Copyable, n)
            /\ output_pdf = PagesAdded(split_points[1], total_pages, bad_pages)
            /\ pc = "returned_path" <=> Copyable # {}
            /\ pc = "returned_path" => files = (filename :> output_pdf)
            /\ pc = "returned_none" => files = NoFiles)
    /\ [](pc = "raised" => files = NoFiles /\ output_pdf # <<>>)
    /\ (pc = "create" ~> pc \in {"returned_path", "returned_none", "raised"})

\* Pages 1 to 3 with page 2 failing: pages 1 and 3 are copied and written.
C21_Witness ==
    /\ pc = "returned_path"
    /\ bad_pages = {2}
    /\ output_pdf = <<1, 3>>
    /\ files = (filename :> <<1, 3>>)

----------------------------------------------------------------------------
(* get_split_points, then split_pdf on its result *)

\* Titles that clean to different stems, and two that clean to the same.
EndToEndTitles == {TitleCh1, TitleCh2, TitleSpace, TitleHyphen}
EndToEndBookmarks == {Bookmark(t, p, 0) : t \in EndToEndTitles, p \in 1..MaxPage}
EndToEndLists == SeqsUpTo(EndToEndBookmarks, MaxBookmarks) \cup {ExampleBookmarks}

InitEndToEnd ==
    /\ pc = "derive"
    /\ bookmarks \in EndToEndLists
    /\ total_pages \in (IF bookmarks = ExampleBookmarks THEN {10} ELSE {MaxPage, MaxPage + 1})
    /\ bad_pages \in BadPageSets
    /\ split_points = <<>>
    /\ IdleName
    /\ pdf_exists = TRUE
    /\ i = 0
    /\ split_files = <<>>
    /\ files = NoFiles
    /\ outcome = <<>>
    /\ IdlePipeline

\* split_pdf(pdf_path, split_points, output_dir), every write succeeding
SplitDerived ==
    /\ pc = "derived"
    /\ split_files' = SplitFilesFrom(split_points, 1, total_pages, bad_pages, TRUE)
    /\ files' = FilesWrittenFrom(files, split_points, 1, total_pages, bad_pages)
    /\ pc' = "done"
    /\ UNCHANGED <<pipelineVars, bookmarks, split_points, nameVars, total_pages, pdf_exists,
                   bad_pages, i, outcome>>

NextEndToEnd ==
    \/ GetSplitPoints
    \/ SplitDerived

SpecEndToEnd == InitEndToEnd /\ [][NextEndToEnd]_vars

BookmarkPages == {bookmarks[k].page : k \in DOMAIN bookmarks}
SmallestPage == CHOOSE p \in BookmarkPages : \A q \in BookmarkPages : p <= q

\* Bookmarks on pages of the document, no page failing, no two files of one name.
Partitionable ==
    /\ bookmarks # <<>>
    /\ \A p \in BookmarkPages : p \in 1..total_pages
    /\ bad_pages = {}
    /\ Cardinality({split_files[k] : k \in DOMAIN split_files}) = Len(split_files)

\* The places (file, position) at which a page of the source is found.
PlacesOf(p) == {<<f, n>> \in (DOMAIN files) \X (1..total_pages) :
                    n \in DOMAIN files[f] /\ files[f][n] = p}

\* C22: for bookmarks whose pages are all in the document, with no copy
\* failure and distinct filenames, the files written by split_pdf from the
\* result of get_split_points hold every page from the smallest bookmark page
\* to the last page exactly once, and no page before the smallest bookmark page.
C22_EndToEndPartition ==
    pc = "done" /\ Partitionable =>
        \A p \in 1..total_pages :
            IF p >= SmallestPage THEN Cardinality(PlacesOf(p)) = 1 ELSE PlacesOf(p) = {}

\* Three bookmarks from page 2 on in a four-page document: three files, page 1
\* in none of them.
C22_Witness ==
    /\ pc = "done"
    /\ Partitionable
    /\ total_pages = MaxPage + 1
    /\ SmallestPage = 2
    /\ Len(bookmarks) = 3
    /\ Len(split_files) >= 2
    /\ PlacesOf(1) = {}

----------------------------------------------------------------------------
(* get_split_points called again, on the same list and on it reordered *)

RederiveBookmarks == {Bookmark(t, p, 0) : t \in BookmarkTitles, p \in 1..MaxPage}
RederiveLists == SeqsUpTo(RederiveBookmarks, MaxBookmarks) \cup {ExampleBookmarks}

InitRederive ==
    /\ pc = "derive"
    /\ bookmarks \in RederiveLists
    /\ split_points = <<>>
    /\ IdleName
    /\ IdleSplit
    /\ IdlePipeline

\* The list bs in the order given by a permutation of its positions.
Reorder(bs, perm) == [k \in DOMAIN bs |-> bs[perm[k]]]

rederiveRest ==
    <<bookmarks, split_points, nameVars, splitVars, filterVars, outline, cliVars, convertVars,
      page_num, output_pdf, validated>>

\* A second call on the same list.
GetSplitPointsAgain ==
    /\ pc = "derived"
    /\ split_points_again' = get_split_points(bookmarks)
    /\ pc' = "rederived"
    /\ UNCHANGED <<rederiveRest, reordered>>

\* A call on the same bookmarks in another order.
GetSplitPointsReordered ==
    /\ pc = "rederived"
    /\ \E perm \in Permutations(DOMAIN bookmarks) :
           /\ reordered' = Reorder(bookmarks, perm)
           /\ split_points_again' = get_split_points(reordered')
    /\ pc' = "reordered"
    /\ UNCHANGED rederiveRest

NextRederive ==
    \/ GetSplitPoints
    \/ GetSplitPointsAgain
    \/ GetSplitPointsReordered

SpecRederive == InitRederive /\ [][NextRederive]_vars

DistinctPages ==
    \A j, k \in DOMAIN bookmarks : j # k => bookmarks[j].page # bookmarks[k].page

----------------------------------------------------------------------------
(* Validation in PDFCraftCLI.run *)

\* Two strings are the same when the case of their letters is ignored.
SameIgnoringCase(a, b) ==
    /\ Len(a) = Len(b)
    /\ \A k \in DOMAIN a : SameChar(a[k], b[k], FALSE)

\* The command line parses, and it names another operation than split, a
\* post-processing other than tomd, no source, or no filter.
FailsValidation ==
    /\ entry = "PDFCraftCLI"
    /\ ~ParserError
    /\ \/ ~SameIgnoringCase(args.ops[1], <<"s", "p", "l", "i", "t">>)
       \/ args.post # None /\ ~SameIgnoringCase(args.post[1], <<"t", "o", "m", "d">>)
       \/ args.source = None
       \/ args.source # None /\ args.source[1] = Source("", "", <<>>)
       \/ args.level = None /\ args.keywords = None

\* The stages in the order of the pipeline of PDFCraftCLI.
StageOrder ==
    <<"load_pdf", "extract_bookmarks", "filter_by_level", "filter_by_keywords",
      "get_split_points", "split_pdf", "cleanup_temp_files", "convert_multiple_pdfs">>
StageRank(stage) == CHOOSE k \in DOMAIN StageOrder : StageOrder[k] = stage

\* C24: a run of PDFCraftCLI whose command line fails validation calls no
\* stage (no load, extraction, split, conversion or cleanup), writes nothing
\* and returns 1; and in every run the stages are called one after the other
\* in the order of the pipeline, none twice.
C24_ValidationFirst ==
    /\ FailsValidation =>
           /\ calls = <<>>
           /\ files = NoFiles
           /\ md_files = {}
           /\ Ended => pc = "returned" /\ exit_code = Some(1)
    /\ entry = "PDFCraftCLI" =>
           \A j, k \in DOMAIN calls : j < k => StageRank(calls[j]) < StageRank(calls[k])

----------------------------------------------------------------------------
(* PDFSplitter.validate_split_points *)

\* start_page = max(1, start_page); start_page = min(total_pages, start_page);
\* a closed end_page = max(start_page, end_page), then min(total_pages, end_page).
ClampSplitPoint(split_point, total) ==
    LET start_page == Min(total, Max(1, split_point.start_page))
        end_page == IF split_point.end_page # None
                    THEN Some(Min(total, Max(start_page, split_point.end_page[1])))
                    ELSE None
    IN  SplitPoint(split_point.title, start_page, end_page, split_point.level)

\* The loop appends the clamped split point if start_page <= total_pages;
\* an empty list is returned as it is.
validate_split_points(sps, total) ==
    IF sps = <<>> THEN <<>>
    ELSE SelectSeq([k \in DOMAIN sps |-> ClampSplitPoint(sps[k], total)],
                   LAMBDA v : v.start_page <= total)

\* Strictly increasing start pages of n split points.
IncreasingStarts(n) ==
    {st \in [1..n -> 1..(MaxPage + 1)] : \A k \in 1..(n - 1) : st[k] < st[k + 1]}

\* Contiguous, non-overlapping split points: each ends on the page before the
\* next one starts; the last one is open or ends at or after its start.
ValidateLists ==
    UNION {{[k \in 1..n |-> SplitPoint(TitleCh1, st[k],
                                       IF k < n THEN Some(st[k + 1] - 1) ELSE e, 0)] :
              <<st, e>> \in {x \in IncreasingStarts(n) \X
                                   ({None} \cup {Some(q) : q \in 1..(MaxPage + 1)}) :
                                x[2] = None \/ n = 0 \/ x[2][1] >= x[1][n]}} :
           n \in 0..MaxSplits}

InitValidate ==
    /\ pc = "validate"
    /\ split_points \in ValidateLists
    /\ total_pages \in 0..MaxPage
    /\ bookmarks = <<>>
    /\ IdleName
    /\ pdf_exists = TRUE
    /\ bad_pages = {}
    /\ i = 0
    /\ split_files = <<>>
    /\ files = NoFiles
    /\ outcome = <<>>
    /\ IdlePipeline

validateRest ==
    <<bookmarks, split_points, nameVars, splitVars, filterVars, outline, cliVars, convertVars,
      page_num, output_pdf, reordered, split_points_again>>

ValidateSplitPoints ==
    /\ pc = "validate"
    /\ validated' = validate_split_points(split_points, total_pages)
    /\ pc' = "validated"
    /\ UNCHANGED validateRest

NextValidate == ValidateSplitPoints

SpecValidate == InitValidate /\ [][NextValidate]_vars

\* The last page of a returned range: its end_page, or the last page of the
\* document when it is open.
LastPageOf(v) == IF v.end_page = None THEN total_pages ELSE v.end_page[1]

\* C25: every split point returned by validate_split_points has
\* 1 <= start_page <= total_pages and, when closed,
\* start_page <= end_page <= total_pages, and no two returned ranges share a
\* page.
C25_ValidatedWellFormed ==
    pc = "validated" =>
        /\ \A k \in DOMAIN validated :
               /\ 1 <= validated[k].start_page
               /\ validated[k].start_page <= total_pages
               /\ validated[k].end_page # None =>
                      /\ validated[k].start_page <= validated[k].end_page[1]
                      /\ validated[k].end_page[1] <= total_pages
        /\ \A j, k \in DOMAIN validated :
               j < k => LastPageOf(validated[j]) < validated[k].start_page

====
